---- MODULE Spec2Model ----
(***************************************************************************)
(* The frame-rendering orchestration of packages/renderer/src/             *)
(* render-frames.ts: renderFrames / innerRenderFrames, the per-frame tasks *)
(* (renderFrameAndRetryTargetClose, renderFrame,                           *)
(* renderFrameWithOptionToReject), the page pool they share, the browser   *)
(* replacement they trigger on a crash, and the cancel signal.             *)
(*                                                                         *)
(* One step of the model is one macrotask of the event loop: a handler     *)
(* together with the promise continuations (microtasks) it makes runnable. *)
(* Pool (./pool), replaceBrowser (./replace-browser) and the cancel signal *)
(* (./make-cancel-signal) are imported by render-frames.ts; their          *)
(* definitions below follow the specification's sections 4.2, 4.4 and 4.7. *)
(***************************************************************************)
EXTENDS Naturals, Integers, Sequences, FiniteSets, TLC

\* Bounds of the model: the largest frame plan and the largest concurrency.
MaxFrames == 2
MaxConcurrency == 2
\* Bound of the model: how many failures the environment injects in one run
\* (rejected page operations, page error events, failed launches).
MaxFaults == 2
\* Bound of the model: how many asset downloads are pending at once.
MaxDownloads == 1
\* Bounds of the numbering specification: the composition's length and the
\* stride (20 addressable frames and stride 5 are within them).
MaxDuration == 20
MaxStride == 5
\* Bound of the asset specification: how many distinct assets (fingerprints)
\* the frames of a run reference.
MaxFingerprints == 3

\* render-frames.ts:52
MAX_RETRIES_PER_FRAME == 1

MaxAttempts == MAX_RETRIES_PER_FRAME + 1
\* Bound of the model: how many getBrowserInstance calls one warm function
\* sees.
MaxCalls == 3
\* Bounds of the model: how many executable paths there are, and how many
\* binaryExists calls are made.
MaxPaths == 2
MaxBinaryCalls == 3

VARIABLES
    frameCount,        \* framesToRender.length
    actualConcurrency, \* actualConcurrency
    config,            \* the options: valid, or which check they fail
    started,           \* innerRenderFrames has been called
    cancelled,         \* the cancel signal has fired
    stopped,           \* innerRenderFrames' `stopped`
    runState,          \* the promise renderFrames returns
    runErr,            \* what it rejected with
    poolState,         \* poolPromise: pending, ready, failed
    poolErr,           \* what poolPromise rejected with
    resources,         \* Pool.resources: the idle pages, oldest first
    poolWaiters,       \* Pool.waiters: the attempts suspended in acquire()
    nextPage,          \* pagesArray.length: pages made so far (ids 1..nextPage)
    browserGen,        \* how many times the browser has been replaced
    browserAlive,      \* the current browser is up (not closed, not being replaced)
    replacing,         \* the browser replacer's `replacing` flag
    taskState,         \* per frame task: the promise of renderFrameAndRetryTargetClose
    taskErr,           \* what that promise rejected with
    attempt,           \* per frame task: the `attempt` argument of the current call
    caught,            \* history, per frame task: the last err its catch block was entered with
    apc,               \* per attempt: where renderFrameWithOptionToReject stands
    apage,             \* per attempt: freePage (0: none)
    durationInFrames,  \* composition.durationInFrames
    frameRange,        \* the frameRange option (<<>>: null)
    everyNthFrame,     \* the everyNthFrame option
    numPc,             \* how far the numbering of one plan has got
    planned,           \* framesToRender
    fileNumbers,       \* the number in each frame's output file name
    returnValue,       \* firstFrameIndex and frameCount of the manifest
    collectedAssets,   \* the fingerprints takeFrameAndCompose collects per frame
    assetRecords,      \* per frame and fingerprint, the local path recorded (0: none)
    resolverRuns,      \* per fingerprint, how often the resolver was started
    blockRuns,         \* per frame, how often an attempt reached its assets block
    enqueued,          \* history: the callers acquire() suspended, in order
    served,            \* history: the suspended callers release() resumed, in order
    puppeteerInstance, \* whether options.puppeteerInstance was passed in
    closedPages,       \* how many pages the finally callback closed (-1: not run)
    cleanedUp,         \* how many cleanup functions it called (-1: not run)
    assets,            \* the assets array (0: undefined, else frame + 1)
    writes,            \* history: how often assets[i] was assigned
    downloads,         \* pending downloadAndMapAssetsToFileUrl promises
    downloadFailed,    \* history: one of them has rejected
    cycles,            \* history: replacement cycles begun
    batches,           \* history: page batches made by makeNewPages callbacks
    firstCause,        \* history: the first fatal or cancellation cause of the run
    faults,            \* history: failures injected so far
    cancelledEarly,    \* history: cancel fired on a pending run before any acquire() returned
    _browserInstance,  \* get-browser-instance.ts: the cached browser (0: null)
    launching,         \* get-browser-instance.ts: the `launching` flag
    connected,         \* the browsers launched and not yet disconnected
    closedInstances,   \* history: the browsers a 'disconnected' handler has closed
    launched,          \* how many browsers internalOpenBrowser has resolved with
    callPc,            \* per getBrowserInstance call: where it stands
    callResult,        \* per call: the browser returned (0: none)
    callError,         \* per call: the message of the error thrown ("": none)
    inFlight,          \* the call whose internalOpenBrowser is pending (0: none)
    waitsFor,          \* history, per call: the launch that was pending when it took the wait branch
    existsMap,         \* binaryExists' existsMap: a value per name memoized
    onPath,            \* the binary names `which` finds
    existingFiles,     \* the paths statSync finds
    probes,            \* history, per name: how often the file system was probed
    returned,          \* history, per name: the values binaryExists has returned
    passed,            \* history, per name: the localExecutable arguments passed
    binaryCalls        \* history: how many binaryExists calls were made

vars == <<frameCount, actualConcurrency, config, started, cancelled, stopped, runState,
          runErr, poolState, poolErr, resources, poolWaiters, nextPage,
          browserGen, browserAlive, replacing, taskState, taskErr, attempt,
          caught, apc, apage, assets, writes, downloads, downloadFailed, cycles, batches, firstCause,
          faults, cancelledEarly,
          durationInFrames, frameRange, everyNthFrame, numPc, planned, fileNumbers,
          returnValue, puppeteerInstance, closedPages, cleanedUp, enqueued, served,
          collectedAssets, assetRecords, resolverRuns, blockRuns,
          _browserInstance, launching, connected, closedInstances, launched,
          callPc, callResult, callError, inFlight, waitsFor,
          existsMap, onPath, existingFiles, probes, returned, passed, binaryCalls>>

poolVars == <<poolState, poolErr, resources, poolWaiters, nextPage>>
browserVars == <<browserGen, browserAlive, replacing, cycles, batches>>
taskVars == <<taskState, taskErr, attempt, caught>>
runVars == <<runState, runErr, firstCause>>
attemptVars == <<apc, apage>>
assetVars == <<assets, writes, downloads, downloadFailed>>
cancelVars == <<cancelled, stopped, cancelledEarly>>
numVars == <<durationInFrames, frameRange, everyNthFrame, numPc, planned,
             fileNumbers, returnValue>>
poolHistory == <<enqueued, served>>
dedupVars == <<collectedAssets, assetRecords, resolverRuns, blockRuns>>
lambdaVars == <<_browserInstance, launching, connected, closedInstances, launched,
                callPc, callResult, callError, inFlight, waitsFor>>
binaryVars == <<existsMap, onPath, existingFiles, probes, returned, passed, binaryCalls>>
helperVars == <<lambdaVars, binaryVars>>
planVars == <<frameCount, actualConcurrency, config, started, numVars,
              puppeteerInstance, poolHistory, dedupVars, helperVars>>

\* One more injected failure, within the bound.
Fault == faults < MaxFaults /\ faults' = faults + 1
NoFault == faults' = faults

Tasks == 1..frameCount
Attempts == Tasks \X (1..MaxAttempts)

\* A frame planner that returns an empty list as it returns any other.
getFramesToRenderNeverThrows == FALSE

\* getFramesToRender(realFrameRange, everyNthFrame) fails with a
\* configuration error when the list it computes is empty.
getFramesToRenderThrows == frameCount = 0

\* framesToRender[index]: the plan is a strictly increasing list of frame numbers.
framesToRender(index) == index - 1

\* The errors a task can see: cancelErrorMessages.renderFrames, a target-closed
\* error, new Error('Render was stopped'), and any other error.
isUserCancelledRender(err) == err = "cancel"
isTargetClosedErr(err) == err = "crash"
ThrownErrors == {"crash", "fatal"}

\* The attempt (t, k) is the one task t is awaiting: the promise of its
\* renderFrame call is still pending.
Live(t, k) == taskState[t] = "running" /\ attempt[t] = k

\* The batch a page was made in: getPool makes pages 1..C, every makeNewPages
\* callback the next C.
PageGen(p) == (p - 1) \div actualConcurrency

\* A page can be driven only while the browser it was opened on is up.
PageValid(p) == browserAlive /\ PageGen(p) = browserGen

\* The attempt holds a page: acquire() returned it, release() was not called.
Holds(a) == apage[a] # 0

\* Where an attempt's function is running on its page (seekToFrame was called).
InFlight(a) == apc[a] \in {"rendering", "renderingDead"}

HeldPages == {apage[a] : a \in {b \in Attempts : Holds(b)}}

\* Whether acquire() has ever returned a page to the attempt.
Acquired(a) ==
    \/ apc[a] \in {"rendering", "renderingDead", "done", "stopped"}
    \/ apc[a] = "failed" /\ apage[a] # 0

\* retriesLeft passed on unchanged to the recursive call.
retriesLeftNotDecremented(t) == MAX_RETRIES_PER_FRAME

\* retriesLeft of the task's current call: MAX_RETRIES_PER_FRAME at attempt 1,
\* one less at each recursive call.
retriesLeft(t) == MAX_RETRIES_PER_FRAME - (attempt[t] - 1)

----------------------------------------------------------------------------
\* The pool (./pool).

\* The function without its check of `stopped`.
AfterAcquirePcNoStopCheck(valid) ==
    IF valid THEN "rendering" ELSE "renderingDead"

\* Where the function of an attempt stands once `await pool.acquire()` has
\* returned it a page: with `stopped` set it calls
\* reject(new Error('Render was stopped')) and returns without releasing the
\* page; otherwise it subscribes to the page's errors and calls seekToFrame.
\* valid: the page's browser is up.
AfterAcquirePc(valid) ==
    IF stopped THEN "stopped"
    ELSE IF valid THEN "rendering" ELSE "renderingDead"

\* acquire() by attempt a on the pool state st = [res, wait, pc, pg]: the
\* oldest idle page is taken, or the attempt joins the pool's waiters.
PoolAcquire(a, valid, st) ==
    IF st.res # <<>>
    THEN [st EXCEPT !.res = Tail(@),
                    !.pc[a] = AfterAcquirePc(valid),
                    !.pg[a] = Head(st.res)]
    ELSE [st EXCEPT !.wait = Append(@, a), !.pc[a] = "waiting"]

\* A release that puts the page on the idle list and resumes nobody.
ReleaseWithoutWaking(p, valid, st) == [st EXCEPT !.res = Append(@, p)]

\* A release that resumes the caller that has waited the shortest.
ReleaseToNewestWaiter(p, valid, st) ==
    IF st.wait = <<>>
    THEN [st EXCEPT !.res = Append(@, p)]
    ELSE [st EXCEPT !.wait = SubSeq(@, 1, Len(@) - 1),
                    !.pc[st.wait[Len(st.wait)]] = AfterAcquirePc(valid),
                    !.pg[st.wait[Len(st.wait)]] = p]

\* release(page): the longest-waiting caller of acquire() gets the page and
\* its function goes on, or the page goes back to the idle list.
Release(p, valid, st) ==
    IF st.wait = <<>>
    THEN [st EXCEPT !.res = Append(@, p)]
    ELSE [st EXCEPT !.wait = Tail(@),
                    !.pc[Head(st.wait)] = AfterAcquirePc(valid),
                    !.pg[Head(st.wait)] = p]

\* A makeNewPages callback that makes the pages and releases none.
ReleaseNone(ps, valid, st) == st

RECURSIVE ReleaseAll(_, _, _)
ReleaseAll(ps, valid, st) ==
    IF ps = <<>> THEN st
    ELSE ReleaseAll(Tail(ps), valid, Release(Head(ps), valid, st))

RECURSIVE AcquireAll(_, _, _)
AcquireAll(as, valid, st) ==
    IF as = <<>> THEN st
    ELSE AcquireAll(Tail(as), valid, PoolAcquire(Head(as), valid, st))

PoolNow == [res |-> resources, wait |-> poolWaiters, pc |-> apc, pg |-> apage]

\* A batch that is the first batch's pages again.
NewPagesReused == [i \in 1..actualConcurrency |-> i]

\* The pages one batch of actualConcurrency makePage calls opens.
NewPages == [i \in 1..actualConcurrency |-> nextPage + i]

----------------------------------------------------------------------------
\* The promise renderFrames returns, and the promise of one frame task.

\* A reject that overwrites an earlier rejection.
SettleRejectLastWins(err) ==
    /\ runState' = IF runState = "resolved" THEN runState ELSE "rejected"
    /\ runErr' = IF runState = "resolved" THEN runErr ELSE err

\* reject(err) on the run's promise: the first settlement stands.
SettleReject(err) ==
    /\ runState' = IF runState = "pending" THEN "rejected" ELSE runState
    /\ runErr' = IF runState = "pending" THEN err ELSE runErr

\* The cleanup functions in the `cleanup` array: stopCycling of
\* cycleBrowserTabs and the server's cleanup are pushed by the callback that
\* goes on to call innerRenderFrames, once the server and the browser are
\* ready.
Registered == IF started THEN 2 ELSE 0

teardownVars == <<closedPages, cleanedUp>>

\* The finally callback of renderFrames' promise chain, run in the step that
\* settles the run: with a browser passed in it closes the pages that are in
\* openedPages at that moment, otherwise it closes browserInstance, the
\* browser of the first batch of pages; it then calls the cleanup functions.
\* What the closing does to functions still running on those pages is among
\* the failures the environment injects.
Finally ==
    /\ closedPages' = IF runState = "pending" /\ runState' # "pending"
                      THEN nextPage' ELSE closedPages
    /\ cleanedUp' = IF runState = "pending" /\ runState' # "pending"
                    THEN Registered' ELSE cleanedUp

\* History: the first fatal or cancellation cause raised while the run had
\* not resolved.
NoteCause(err) ==
    firstCause' = IF firstCause = "none" /\ runState # "resolved"
                  THEN err ELSE firstCause

\* throw err out of renderFrameAndRetryTargetClose: progress (Promise.all)
\* rejects with it, and so does the run unless it is settled.
Throw(t, err) ==
    /\ taskState' = [taskState EXCEPT ![t] = "rejected"]
    /\ taskErr' = [taskErr EXCEPT ![t] = err]
    /\ SettleReject(err)
    /\ NoteCause(err)

\* The task's promise resolves; when it is the last one, progress resolves,
\* happyPath builds the result, Promise.all(downloadPromises) resolves and
\* the run resolves.
Return(t) ==
    /\ taskState' = [taskState EXCEPT ![t] = "resolved"]
    /\ taskErr' = taskErr
    /\ runState' = IF /\ runState = "pending"
                      /\ \A u \in Tasks \ {t} : taskState[u] = "resolved"
                   THEN "resolved" ELSE runState
    /\ UNCHANGED <<runErr, firstCause>>

\* replaceBrowser without its `replacing` flag: every caller starts a cycle.
replaceBrowserUnserialized(t) ==
    /\ taskState' = [taskState EXCEPT ![t] = "replacing"]
    /\ replacing' = TRUE
    /\ browserAlive' = FALSE
    /\ cycles' = cycles + 1

\* browserReplacer.replaceBrowser(makeBrowser, makeNewPages) as called by
\* task t: while a replacement is in progress the caller waits for it;
\* otherwise the caller starts one, and the old browser goes down.
replaceBrowser(t) ==
    IF replacing
    THEN /\ taskState' = [taskState EXCEPT ![t] = "replaceWait"]
         /\ UNCHANGED <<replacing, browserAlive, cycles>>
    ELSE /\ taskState' = [taskState EXCEPT ![t] = "replacing"]
         /\ replacing' = TRUE
         /\ browserAlive' = FALSE
         /\ cycles' = cycles + 1

\* The variables the catch block of a task may change.
catchVars == <<taskState, taskErr, caught, runState, runErr, firstCause,
               replacing, browserAlive, cycles>>

\* TaskCatch with the crash of the last attempt swallowed instead of thrown.
TaskCatchSwallowsCrash(t, err) ==
    /\ caught' = [caught EXCEPT ![t] = err]
    /\ IF isUserCancelledRender(err) \/ ~isTargetClosedErr(err)
       THEN Throw(t, err) /\ UNCHANGED <<replacing, browserAlive, cycles>>
       ELSE IF stopped \/ retriesLeft(t) = 0
       THEN Return(t) /\ UNCHANGED <<replacing, browserAlive, cycles>>
       ELSE replaceBrowser(t) /\ UNCHANGED <<taskErr, runState, runErr, firstCause>>

\* TaskCatch with every thrown error handled as the target-closed one is.
TaskCatchRetriesAnyError(t, err) ==
    /\ caught' = [caught EXCEPT ![t] = err]
    /\ IF isUserCancelledRender(err)
       THEN Throw(t, err) /\ UNCHANGED <<replacing, browserAlive, cycles>>
       ELSE IF stopped
       THEN Return(t) /\ UNCHANGED <<replacing, browserAlive, cycles>>
       ELSE IF retriesLeft(t) = 0
       THEN Throw(t, err) /\ UNCHANGED <<replacing, browserAlive, cycles>>
       ELSE replaceBrowser(t) /\ UNCHANGED <<taskErr, runState, runErr, firstCause>>

\* The catch block of renderFrameAndRetryTargetClose, entered with err by the
\* task's current attempt.
TaskCatch(t, err) ==
    /\ caught' = [caught EXCEPT ![t] = err]
    /\ IF isUserCancelledRender(err) \/ ~isTargetClosedErr(err)
       THEN Throw(t, err) /\ UNCHANGED <<replacing, browserAlive, cycles>>
       ELSE IF stopped
       THEN Return(t) /\ UNCHANGED <<replacing, browserAlive, cycles>>
       ELSE IF retriesLeft(t) = 0
       THEN Throw(t, err) /\ UNCHANGED <<replacing, browserAlive, cycles>>
       ELSE replaceBrowser(t) /\ UNCHANGED <<taskErr, runState, runErr, firstCause>>

\* What the rejection of attempt a's promise does: the task's catch block
\* runs when the task is still awaiting that attempt, nothing otherwise.
AttemptRejects(a, err) ==
    IF Live(a[1], a[2]) THEN TaskCatch(a[1], err) ELSE UNCHANGED catchVars

----------------------------------------------------------------------------
\* The options renderFrames may be called with: valid ones; a composition
\* whose width, height, fps or durationInFrames fails its validation; and
\* output options that fail the checks of outputDir / onFrameBuffer /
\* imageFormat.
Configs == {"valid", "invalidComposition", "invalidOutput"}

\* The state when renderFrames has returned: with a composition that fails
\* validation it has thrown; otherwise it has returned its promise, the
\* server and the browser are being set up, the cancel callback of the
\* outer race is registered, and innerRenderFrames has not run.
RenderInit ==
    /\ config \in Configs
    /\ frameCount \in 0..MaxFrames
    /\ actualConcurrency \in 1..MaxConcurrency
    /\ started = FALSE
    /\ cancelled = FALSE
    /\ stopped = FALSE
    /\ runState = IF config = "invalidComposition" THEN "threw" ELSE "pending"
    /\ runErr = IF config = "invalidComposition" THEN "config" ELSE "none"
    /\ poolState = "none"
    /\ poolErr = "none"
    /\ resources = <<>>
    /\ poolWaiters = <<>>
    /\ nextPage = 0
    /\ browserGen = 0
    /\ browserAlive = TRUE
    /\ replacing = FALSE
    /\ taskState = [t \in Tasks |-> "notStarted"]
    /\ taskErr = [t \in Tasks |-> "none"]
    /\ caught = [t \in Tasks |-> "none"]
    /\ attempt = [t \in Tasks |-> 0]
    /\ apc = [a \in Attempts |-> "none"]
    /\ apage = [a \in Attempts |-> 0]
    /\ assets = [i \in Tasks |-> 0]
    /\ writes = [i \in Tasks |-> 0]
    /\ downloads = 0
    /\ downloadFailed = FALSE
    /\ cycles = 0
    /\ batches = 0
    /\ firstCause = "none"
    /\ faults = 0
    /\ cancelledEarly = FALSE
    /\ puppeteerInstance \in BOOLEAN
    /\ closedPages = -1
    /\ cleanedUp = -1

\* The frameRange option when it is null.
NoRange == <<>>

\* In a run of the rendering specification the plan is the frames
\* 0..frameCount-1 (framesToRender above) and the numbering is not followed.
NumIdle ==
    /\ durationInFrames = MaxFrames
    /\ frameRange = NoRange
    /\ everyNthFrame = 1
    /\ numPc = "idle"
    /\ planned = <<>>
    /\ fileNumbers = <<>>
    /\ returnValue = <<>>

\* The order of the pool's waiters is followed in the pool's own
\* specification only.
PoolHistoryIdle == enqueued = <<>> /\ served = <<>>

Fingerprints == 1..MaxFingerprints

\* In the rendering specification the assets of a frame are a count of
\* downloads (AttemptSucceeds); which assets they are is followed in the
\* asset specification only.
DedupIdle ==
    /\ collectedAssets = [t \in Tasks |-> {}]
    /\ assetRecords = [t \in Tasks |-> [fp \in Fingerprints |-> 0]]
    /\ resolverRuns = [fp \in Fingerprints |-> 0]
    /\ blockRuns = [t \in Tasks |-> 0]

Calls == 1..MaxCalls
NoInstance == 0
NoCall == 0

\* The module state of get-browser-instance.ts when it is loaded: no cached
\* browser, `launching` false, and no call made yet.
LambdaIdle ==
    /\ _browserInstance = NoInstance
    /\ launching = FALSE
    /\ connected = {}
    /\ closedInstances = {}
    /\ launched = 0
    /\ callPc = [c \in Calls |-> "notCalled"]
    /\ callResult = [c \in Calls |-> NoInstance]
    /\ callError = [c \in Calls |-> ""]
    /\ inFlight = NoCall
    /\ waitsFor = [c \in Calls |-> NoCall]

BinaryNames == {"ffmpeg", "ffprobe", "brew"}
NoPath == 0
Paths == 1..MaxPaths

\* const existsMap = {}: nothing is memoized; in the specifications that do
\* not follow binaryExists the file system is empty and stays so.
BinaryIdle ==
    /\ existsMap = [n \in {} |-> TRUE]
    /\ onPath = {}
    /\ existingFiles = {}
    /\ probes = [n \in BinaryNames |-> 0]
    /\ returned = [n \in BinaryNames |-> {}]
    /\ passed = [n \in BinaryNames |-> {}]
    /\ binaryCalls = 0

HelpersIdle == LambdaIdle /\ BinaryIdle

Init == RenderInit /\ NumIdle /\ PoolHistoryIdle /\ DedupIdle /\ HelpersIdle

\* onStart({frameCount}) has been called: it follows the getPool call.
onStartCalled == poolState # "none"

\* innerRenderFrames runs. When getFramesToRender throws, innerRenderFrames
\* throws and the run is rejected with that error. Otherwise:
\* poolPromise = getPool(), onStart is called, the assets array is
\* allocated, `stopped` subscribes to the cancel signal, and every frame task
\* is started (progress = Promise.all(framesToRender.map(...))). Each task
\* calls renderFrame, whose function suspends at `await poolPromise`, and
\* races it against the cancel signal; a signal that has fired already calls
\* its new subscribers at once.
StartInner ==
    /\ NoFault
    /\ ~started
    /\ runState # "threw"
    /\ started' = TRUE
    /\ IF getFramesToRenderThrows
       THEN /\ SettleReject("config")
            /\ NoteCause("config")
            /\ UNCHANGED <<poolState, stopped, attempt, apc, taskState,
                           taskErr, caught>>
       ELSE /\ poolState' = "pending"
            /\ stopped' = cancelled
            /\ attempt' = [t \in Tasks |-> 1]
            /\ apc' = [a \in Attempts |-> IF a[2] = 1 THEN "awaitPool" ELSE "none"]
            /\ taskState' = [t \in Tasks |-> IF cancelled THEN "rejected" ELSE "running"]
            /\ taskErr' = [t \in Tasks |-> IF cancelled THEN "cancel" ELSE "none"]
            /\ caught' = [t \in Tasks |-> IF cancelled THEN "cancel" ELSE "none"]
            /\ IF cancelled
               THEN SettleReject("cancel") /\ NoteCause("cancel")
               ELSE IF Tasks = {}
               THEN runState' = "resolved" /\ UNCHANGED <<runErr, firstCause>>
               ELSE UNCHANGED runVars
    /\ UNCHANGED <<frameCount, actualConcurrency, config, cancelled, cancelledEarly,
                   poolErr, resources, poolWaiters, nextPage, browserVars,
                   apage, assetVars, numVars, puppeteerInstance, poolHistory,
                   dedupVars, helperVars>>
    /\ Finally

\* getPool resolves: all actualConcurrency pages were made and `new Pool`
\* holds them. The functions of all frame tasks, suspended at
\* `await poolPromise`, go on in the order of their index and call
\* pool.acquire().
PoolReady ==
    /\ NoFault
    /\ poolState = "pending"
    /\ poolState' = "ready"
    /\ nextPage' = nextPage + actualConcurrency
    /\ LET st == AcquireAll([t \in Tasks |-> <<t, 1>>], browserAlive,
                            [PoolNow EXCEPT !.res = NewPages]) IN
         /\ resources' = st.res
         /\ poolWaiters' = st.wait
         /\ apc' = st.pc
         /\ apage' = st.pg
    /\ UNCHANGED <<planVars, cancelVars, runVars, poolErr,
                   browserVars, taskVars, assetVars>>
    /\ UNCHANGED teardownVars

\* A getPool that builds the pool from the pages whose makePage succeeded.
PoolInitFailsPartialPool(err) ==
    /\ Fault
    /\ poolState = "pending"
    /\ poolState' = "ready"
    /\ poolErr' = err
    /\ nextPage' = nextPage + actualConcurrency
    /\ LET st == AcquireAll([t \in Tasks |-> <<t, 1>>], browserAlive,
                            [PoolNow EXCEPT !.res = SubSeq(NewPages, 1, actualConcurrency - 1)]) IN
         /\ resources' = st.res
         /\ poolWaiters' = st.wait
         /\ apc' = st.pc
         /\ apage' = st.pg
    /\ UNCHANGED <<planVars, cancelVars, runVars,
                   browserVars, taskVars, assetVars>>
    /\ UNCHANGED teardownVars

\* getPool rejects: one makePage failed, so Promise.all(pages) rejected and
\* no Pool was made.
PoolInitFails(err) ==
    /\ Fault
    /\ poolState = "pending"
    /\ poolState' = "failed"
    /\ poolErr' = err
    /\ UNCHANGED <<planVars, cancelVars, runVars, resources, poolWaiters,
                   nextPage, browserVars, taskVars, attemptVars, assetVars>>
    /\ UNCHANGED teardownVars

\* `await poolPromise` throws in attempt a.
AwaitPoolThrows(a) ==
    /\ NoFault
    /\ apc[a] = "awaitPool"
    /\ poolState = "failed"
    /\ apc' = [apc EXCEPT ![a] = "failed"]
    /\ AttemptRejects(a, poolErr)
    /\ UNCHANGED <<planVars, cancelVars, poolVars, browserGen, batches,
                   attempt, apage, assetVars>>
    /\ Finally

\* A retry: `await poolPromise` returns the pool at once and attempt a calls
\* pool.acquire(). A reject(new Error('Render was stopped')) finds the
\* attempt's promise settled: `stopped` is set by the cancel signal, which
\* rejects the race of every task, before or at the start of its attempt.
Acquire(a) ==
    /\ NoFault
    /\ apc[a] = "awaitPool"
    /\ poolState = "ready"
    /\ LET st == PoolAcquire(a, resources # <<>> /\ PageValid(Head(resources)),
                             PoolNow) IN
         /\ resources' = st.res
         /\ poolWaiters' = st.wait
         /\ apc' = st.pc
         /\ apage' = st.pg
    /\ UNCHANGED <<planVars, cancelVars, poolState, poolErr, nextPage,
                   browserVars, taskVars, runVars, assetVars>>
    /\ UNCHANGED teardownVars

\* seekToFrame or takeFrameAndCompose rejects in attempt a (or one of the
\* function's own throws is reached): the function ends without releasing
\* its page.
AttemptThrows(a, err) ==
    /\ Fault
    /\ apc[a] = "rendering"
    /\ apc' = [apc EXCEPT ![a] = "failed"]
    /\ AttemptRejects(a, err)
    /\ UNCHANGED <<planVars, cancelVars, poolVars, browserGen, batches,
                   attempt, apage, assetVars>>
    /\ Finally

\* Attempt a drives a page of a browser that was down when the page was
\* acquired: seekToFrame rejects with the target-closed error, and the
\* function ends without releasing its page.
DeadPageThrows(a) ==
    /\ NoFault
    /\ apc[a] = "renderingDead"
    /\ apc' = [apc EXCEPT ![a] = "failed"]
    /\ AttemptRejects(a, "crash")
    /\ UNCHANGED <<planVars, cancelVars, poolVars, browserGen, batches,
                   attempt, apage, assetVars>>
    /\ Finally

\* seekToFrame has returned in attempt a and the options fail the checks of
\* outputDir, onFrameBuffer and imageFormat: the function throws, without
\* releasing its page.
AttemptThrowsConfig(a) ==
    /\ NoFault
    /\ apc[a] = "rendering"
    /\ config = "invalidOutput"
    /\ apc' = [apc EXCEPT ![a] = "failed"]
    /\ AttemptRejects(a, "config")
    /\ UNCHANGED <<planVars, cancelVars, poolVars, browserGen, batches,
                   attempt, apage, assetVars>>
    /\ Finally

\* errorCallbackOnFrame: the page emits 'error', or handleJavascriptException
\* reports an exception, while attempt a is between seekToFrame and its
\* cleanup. reject(err) settles the attempt's promise; the function goes on.
PageErrorEvent(a, err) ==
    /\ Fault
    /\ InFlight(a)
    /\ Live(a[1], a[2])
    /\ TaskCatch(a[1], err)
    /\ UNCHANGED <<planVars, cancelVars, poolVars, browserGen, batches,
                   attempt, attemptVars, assetVars>>
    /\ Finally

\* A function that awaits its downloads before it releases its page and
\* returns.
AttemptSucceedsAwaitsDownloads(a, n) ==
    /\ NoFault
    /\ apc[a] = "rendering"
    /\ config = "valid"
    /\ downloads + n <= MaxDownloads
    /\ downloads' = downloads + n
    /\ downloadFailed' = downloadFailed
    /\ LET st == IF n = 0 THEN Release(apage[a], PageValid(apage[a]), PoolNow)
                 ELSE PoolNow IN
         /\ resources' = st.res
         /\ poolWaiters' = st.wait
         /\ apc' = [st.pc EXCEPT ![a] = "done"]
         /\ apage' = IF n = 0 THEN [st.pg EXCEPT ![a] = 0] ELSE apage
    /\ assets' = [assets EXCEPT ![a[1]] = framesToRender(a[1]) + 1]
    /\ writes' = [writes EXCEPT ![a[1]] = @ + 1]
    /\ IF Live(a[1], a[2]) /\ n = 0
       THEN Return(a[1]) /\ UNCHANGED <<replacing, browserAlive, cycles, caught>>
       ELSE UNCHANGED catchVars
    /\ UNCHANGED <<planVars, cancelVars, poolState, poolErr, nextPage,
                   browserGen, batches, attempt>>
    /\ Finally

\* takeFrameAndCompose returned n collected assets: the function assigns
\* assets[index], calls downloadAndMapAssetsToFileUrl for each asset without
\* keeping its promise, counts the frame, calls onFrameUpdate, unsubscribes
\* and releases its page.
AttemptSucceeds(a, n) ==
    /\ NoFault
    /\ apc[a] = "rendering"
    /\ config = "valid"
    /\ downloads + n <= MaxDownloads
    /\ downloads' = downloads + n
    /\ downloadFailed' = downloadFailed
    /\ LET st == Release(apage[a], PageValid(apage[a]), PoolNow) IN
         /\ resources' = st.res
         /\ poolWaiters' = st.wait
         /\ apc' = [st.pc EXCEPT ![a] = "done"]
         /\ apage' = [st.pg EXCEPT ![a] = 0]
    /\ assets' = [assets EXCEPT ![a[1]] = framesToRender(a[1]) + 1]
    /\ writes' = [writes EXCEPT ![a[1]] = @ + 1]
    /\ IF Live(a[1], a[2])
       THEN Return(a[1]) /\ UNCHANGED <<replacing, browserAlive, cycles, caught>>
       ELSE UNCHANGED catchVars
    /\ UNCHANGED <<planVars, cancelVars, poolState, poolErr, nextPage,
                   browserGen, batches, attempt>>
    /\ Finally

\* onError(err) of renderFrames: reject(err) on the run's promise.
onError(err) == SettleReject(err) /\ NoteCause(err)

\* A promise of downloadAndMapAssetsToFileUrl resolves.
DownloadSucceeds ==
    /\ NoFault
    /\ downloads > 0
    /\ downloads' = downloads - 1
    /\ UNCHANGED <<planVars, cancelVars, poolVars, browserVars, taskVars,
                   runVars, attemptVars, assets, writes, downloadFailed>>
    /\ UNCHANGED teardownVars

\* A promise of downloadAndMapAssetsToFileUrl rejects: its catch handler
\* calls onError(new Error('Error while downloading asset: ...')).
DownloadFails ==
    /\ Fault
    /\ downloads > 0
    /\ downloads' = downloads - 1
    /\ downloadFailed' = TRUE
    /\ onError("asset")
    /\ UNCHANGED <<planVars, cancelVars, poolVars, browserVars, taskVars,
                   attemptVars, assets, writes>>
    /\ Finally

\* The tasks awaiting replaceBrowser: the one that started the replacement
\* and those that joined it.
Replacers == {t \in Tasks : taskState[t] \in {"replacing", "replaceWait"}}

\* The replacement completes: the new browser is up, the makeNewPages
\* callback has made actualConcurrency pages on it and released each into the
\* pool, and replaceBrowser resolves for every task awaiting it. Each calls
\* renderFrameAndRetryTargetClose again with retriesLeft - 1 and attempt + 1,
\* which starts the next renderFrame and races it against the cancel signal.
ReplaceFinishes ==
    /\ NoFault
    /\ replacing
    /\ poolState = "ready"
    /\ replacing' = FALSE
    /\ browserAlive' = TRUE
    /\ browserGen' = browserGen + 1
    /\ batches' = batches + 1
    /\ nextPage' = nextPage + actualConcurrency
    /\ attempt' = [t \in Tasks |-> IF t \in Replacers THEN attempt[t] + 1 ELSE attempt[t]]
    /\ LET st == ReleaseAll(NewPages, TRUE, PoolNow) IN
         /\ resources' = st.res
         /\ poolWaiters' = st.wait
         /\ apage' = st.pg
         /\ apc' = [a \in Attempts |->
                      IF a[1] \in Replacers /\ a[2] = attempt[a[1]] + 1
                      THEN "awaitPool" ELSE st.pc[a]]
    /\ taskState' = [t \in Tasks |->
                       IF t \in Replacers
                       THEN (IF cancelled THEN "rejected" ELSE "running")
                       ELSE taskState[t]]
    /\ taskErr' = [t \in Tasks |->
                     IF t \in Replacers /\ cancelled THEN "cancel" ELSE taskErr[t]]
    /\ caught' = [t \in Tasks |->
                    IF t \in Replacers /\ cancelled THEN "cancel" ELSE caught[t]]
    /\ IF cancelled
       THEN SettleReject("cancel") /\ NoteCause("cancel")
       ELSE UNCHANGED runVars
    /\ UNCHANGED <<planVars, cancelVars, poolState, poolErr, cycles, assetVars>>
    /\ Finally

\* The replacement fails (makeBrowser or the makeNewPages callback throws):
\* replaceBrowser rejects for every task awaiting it, and each throws the
\* error out of its catch block.
ReplaceFails ==
    /\ Fault
    /\ replacing
    /\ replacing' = FALSE
    /\ taskState' = [t \in Tasks |-> IF t \in Replacers THEN "rejected" ELSE taskState[t]]
    /\ taskErr' = [t \in Tasks |-> IF t \in Replacers THEN "fatal" ELSE taskErr[t]]
    /\ caught' = caught
    /\ SettleReject("fatal")
    /\ NoteCause("fatal")
    /\ UNCHANGED <<planVars, cancelVars, poolVars, browserGen, browserAlive,
                   cycles, batches, attempt, attemptVars, assetVars>>
    /\ Finally

\* A replacement while poolPromise is rejected: the makeNewPages callback
\* throws at `await poolPromise`, replaceBrowser rejects with that error
\* for every task awaiting it, and each throws it out of its catch block.
ReplaceFailsOnPool ==
    /\ NoFault
    /\ replacing
    /\ poolState = "failed"
    /\ replacing' = FALSE
    /\ taskState' = [t \in Tasks |-> IF t \in Replacers THEN "rejected" ELSE taskState[t]]
    /\ taskErr' = [t \in Tasks |-> IF t \in Replacers THEN poolErr ELSE taskErr[t]]
    /\ caught' = caught
    /\ SettleReject(poolErr)
    /\ NoteCause(poolErr)
    /\ UNCHANGED <<planVars, cancelVars, poolVars, browserGen, browserAlive,
                   cycles, batches, attempt, attemptVars, assetVars>>
    /\ Finally

\* innerRenderFrames without its subscription `stopped = true`.
StopOnCancelNever == FALSE

\* The callback innerRenderFrames subscribes to the signal, `stopped = true`:
\* it is there to be called once innerRenderFrames has run.
StopOnCancel == started /\ poolState # "none"

\* A run in which only the races of the frame tasks subscribe to the signal.
CancelRejectsRunViaTasksOnly ==
    IF \E t \in Tasks : taskState[t] = "running"
    THEN SettleReject("cancel")
    ELSE UNCHANGED <<runState, runErr>>

\* The cancel callback of the outer race of renderFrames: rej(new
\* Error(cancelErrorMessages.renderFrames)), so the race rejects and the
\* run's reject is called with the cancel error.
CancelRejectsRun == SettleReject("cancel")

\* The cancel signal fires and calls its subscribers in the order they
\* subscribed: the outer race of renderFrames rejects with the cancel error,
\* `stopped` is set, and the race of every task that awaits an attempt
\* rejects with the cancel error (the attempt's function goes on). A call
\* of renderFrames that threw has subscribed nothing.
Cancel ==
    /\ NoFault
    /\ ~cancelled
    /\ runState # "threw"
    /\ cancelled' = TRUE
    /\ stopped' = StopOnCancel
    /\ cancelledEarly' = (runState = "pending" /\ \A a \in Attempts : ~Acquired(a))
    /\ CancelRejectsRun
    /\ NoteCause("cancel")
    /\ taskState' = [t \in Tasks |->
                       IF taskState[t] = "running" THEN "rejected" ELSE taskState[t]]
    /\ taskErr' = [t \in Tasks |->
                     IF taskState[t] = "running" THEN "cancel" ELSE taskErr[t]]
    /\ caught' = [t \in Tasks |->
                    IF taskState[t] = "running" THEN "cancel" ELSE caught[t]]
    /\ UNCHANGED <<planVars, poolVars, browserVars, attempt, attemptVars,
                   assetVars>>
    /\ Finally

Next ==
    \/ StartInner
    \/ PoolReady
    \/ \E err \in ThrownErrors : PoolInitFails(err)
    \/ \E a \in Attempts : AwaitPoolThrows(a)
    \/ \E a \in Attempts : Acquire(a)
    \/ \E a \in Attempts, err \in ThrownErrors : AttemptThrows(a, err)
    \/ \E a \in Attempts : DeadPageThrows(a)
    \/ \E a \in Attempts : AttemptThrowsConfig(a)
    \/ \E a \in Attempts, err \in ThrownErrors : PageErrorEvent(a, err)
    \/ \E a \in Attempts, n \in 0..MaxDownloads : AttemptSucceeds(a, n)
    \/ DownloadSucceeds
    \/ DownloadFails
    \/ ReplaceFinishes
    \/ ReplaceFails
    \/ ReplaceFailsOnPool
    \/ Cancel

Spec == Init /\ [][Next]_vars

-----------------------------------------------------------------------------
\* The pool on its own: `new Pool(pages)`, then every caller (one per
\* possible attempt) calls acquire() once, at any time, and release() once it
\* has its page.

PoolInit ==
    /\ RenderInit
    /\ config = "valid"
    /\ frameCount = MaxFrames
    /\ puppeteerInstance = FALSE
    /\ NumIdle
    /\ PoolHistoryIdle
    /\ DedupIdle
    /\ HelpersIdle

poolSpecVars == <<poolState, resources, poolWaiters, nextPage, apc, apage,
                  enqueued, served>>
notPoolSpecVars == <<frameCount, actualConcurrency, config, started, numVars,
                     puppeteerInstance, teardownVars, dedupVars, helperVars,
                     cancelVars, runVars,
                     poolErr, browserVars, taskVars, assetVars, faults>>

\* const pool = new Pool(puppeteerPages)
PoolNew ==
    /\ poolState = "none"
    /\ poolState' = "ready"
    /\ resources' = NewPages
    /\ nextPage' = nextPage + actualConcurrency
    /\ UNCHANGED <<poolWaiters, apc, apage, enqueued, served, notPoolSpecVars>>

\* await pool.acquire()
PoolClientAcquire(a) ==
    /\ poolState = "ready"
    /\ apc[a] = "none"
    /\ LET st == PoolAcquire(a, TRUE, PoolNow) IN
         /\ resources' = st.res
         /\ poolWaiters' = st.wait
         /\ apc' = st.pc
         /\ apage' = st.pg
         /\ enqueued' = IF st.pc[a] = "waiting" THEN Append(enqueued, a)
                        ELSE enqueued
    /\ UNCHANGED <<poolState, nextPage, served, notPoolSpecVars>>

\* pool.release(freePage)
PoolClientRelease(a) ==
    /\ apc[a] = "rendering"
    /\ LET st == Release(apage[a], TRUE,
                         [PoolNow EXCEPT !.pc[a] = "done", !.pg[a] = 0]) IN
         /\ resources' = st.res
         /\ poolWaiters' = st.wait
         /\ apc' = st.pc
         /\ apage' = st.pg
         /\ served' = IF \E b \in Attempts : apc[b] = "waiting" /\ st.pc[b] # "waiting"
                      THEN Append(served, CHOOSE b \in Attempts :
                                            apc[b] = "waiting" /\ st.pc[b] # "waiting")
                      ELSE served
    /\ UNCHANGED <<poolState, nextPage, enqueued, notPoolSpecVars>>

PoolNext ==
    \/ PoolNew
    \/ \E a \in Attempts : PoolClientAcquire(a)
    \/ \E a \in Attempts : PoolClientRelease(a)

PoolSpec == PoolInit /\ [][PoolNext]_vars

-----------------------------------------------------------------------------
\* The assets of the frames, as a specification of its own: every frame
\* collects a set of assets, and the attempts that reach the end of their
\* capture run the assets block of renderFrameWithOptionToReject, which has
\* no await in it, in any order; a frame's block may run once per attempt.

AssetInit ==
    /\ RenderInit
    /\ config = "valid"
    /\ frameCount = MaxFrames
    /\ actualConcurrency = 1
    /\ puppeteerInstance = FALSE
    /\ NumIdle
    /\ PoolHistoryIdle
    /\ collectedAssets \in [Tasks -> SUBSET Fingerprints]
    /\ assetRecords = [t \in Tasks |-> [fp \in Fingerprints |-> 0]]
    /\ resolverRuns = [fp \in Fingerprints |-> 0]
    /\ blockRuns = [t \in Tasks |-> 0]
    /\ HelpersIdle

\* A block that passes compressAsset no earlier assets.
previousAssetsNone == {}

\* assets.filter(truthy).flat(1): the assets in the slots assigned so far,
\* each with its fingerprint and its local path.
previousAssets ==
    {pr \in {<<fp, assetRecords[t][fp]>> :
                 fp \in Fingerprints, t \in {u \in Tasks : blockRuns[u] > 0}} :
        pr[2] # 0}

\* compressAsset(previousAssets, asset): an asset whose fingerprint was seen
\* earlier in the run is a duplicate and stands for the earlier one (its
\* local path); 0 when there is none.
compressAsset(prev, fp) ==
    IF \E pr \in prev : pr[1] = fp
    THEN (CHOOSE pr \in prev : pr[1] = fp)[2]
    ELSE 0

\* The assets block of an attempt of frame t: the collected assets are
\* compressed against the earlier ones, assets[index] is assigned, and
\* downloadAndMapAssetsToFileUrl is called for each; it starts the resolver
\* for the assets that are no duplicates, whose local path is the one that
\* run of the resolver makes.
AssetsBlock(t) ==
    /\ blockRuns[t] < MaxAttempts
    /\ blockRuns' = [blockRuns EXCEPT ![t] = @ + 1]
    /\ LET prev == previousAssets
           compressed == [fp \in Fingerprints |->
                            IF fp \in collectedAssets[t]
                            THEN compressAsset(prev, fp) ELSE 0]
           fresh == {fp \in collectedAssets[t] : compressed[fp] = 0} IN
         /\ assetRecords' = [assetRecords EXCEPT ![t] =
                               [fp \in Fingerprints |->
                                  IF fp \in fresh THEN resolverRuns[fp] + 1
                                  ELSE compressed[fp]]]
         /\ resolverRuns' = [fp \in Fingerprints |->
                               IF fp \in fresh THEN resolverRuns[fp] + 1
                               ELSE resolverRuns[fp]]
    /\ UNCHANGED <<frameCount, actualConcurrency, config, started, numVars,
                   puppeteerInstance, teardownVars, poolHistory, collectedAssets,
                   helperVars, cancelVars, runVars, poolVars, browserVars, taskVars,
                   attemptVars, assetVars, faults>>

AssetNext == \E t \in Tasks : AssetsBlock(t)

AssetSpec == AssetInit /\ [][AssetNext]_vars

-----------------------------------------------------------------------------
\* The numbering of a plan, as a specification of its own: the inputs are
\* drawn in NumInit, and the steps compute the plan, the number in every
\* frame's file name, and the manifest's firstFrameIndex and frameCount.

\* getRealFrameRange(durationInFrames, frameRange): the whole composition
\* when frameRange is null, else the range given.
getRealFrameRange(d, fr) == IF fr = NoRange THEN <<0, d - 1>> ELSE fr

\* getFramesToRender(realFrameRange, everyNthFrame): the first frame of the
\* range and every everyNthFrame-th after it, in increasing order.
getFramesToRender(r, n) ==
    [i \in 1..((r[2] - r[1]) \div n + 1) |-> r[1] + (i - 1) * n]

\* A count type that does not look at the stride.
countTypeAlwaysActual == "actual-frames"

countType == IF everyNthFrame = 1 THEN "actual-frames" ELSE "from-zero"

\* getFrameOutputFileName({frame, index, countType, ...}): the number put in
\* the file name is the frame number or the index in the plan.
getFrameOutputFileName(frame, index) ==
    IF countType = "actual-frames" THEN frame ELSE index

FrameRanges(d) == {NoRange} \cup {<<lo, hi>> : lo \in 0..(d - 1), hi \in 0..(d - 1)}

NumInit ==
    /\ RenderInit
    /\ config = "valid"
    /\ puppeteerInstance = FALSE
    /\ frameCount = 0
    /\ actualConcurrency = 1
    /\ durationInFrames \in 1..MaxDuration
    /\ frameRange \in {fr \in FrameRanges(durationInFrames) :
                         fr = NoRange \/ fr[1] <= fr[2]}
    /\ everyNthFrame \in 1..MaxStride
    /\ numPc = "options"
    /\ planned = <<>>
    /\ fileNumbers = <<>>
    /\ returnValue = <<>>
    /\ PoolHistoryIdle
    /\ DedupIdle
    /\ HelpersIdle

renderVars == <<frameCount, actualConcurrency, config, started, cancelVars,
                puppeteerInstance, teardownVars, poolHistory, dedupVars,
                runVars, poolVars, browserVars, taskVars, attemptVars,
                assetVars, faults>>

\* const framesToRender = getFramesToRender(realFrameRange, everyNthFrame)
PlanFrames ==
    /\ numPc = "options"
    /\ numPc' = "planned"
    /\ planned' = getFramesToRender(
                     getRealFrameRange(durationInFrames, frameRange), everyNthFrame)
    /\ UNCHANGED <<renderVars, helperVars, durationInFrames, frameRange, everyNthFrame,
                   fileNumbers, returnValue>>

\* framesToRender.map((frame, index) => ...): every frame task names its
\* output file from its frame and its index.
NameFrames ==
    /\ numPc = "planned"
    /\ numPc' = "named"
    /\ fileNumbers' = [i \in 1..Len(planned) |->
                         getFrameOutputFileName(planned[i], i - 1)]
    /\ UNCHANGED <<renderVars, helperVars, durationInFrames, frameRange, everyNthFrame,
                   planned, returnValue>>

\* happyPath: firstFrameIndex and frameCount of the value returned.
happyPath ==
    /\ numPc = "named"
    /\ numPc' = "returned"
    /\ returnValue' = [firstFrameIndex |-> IF countType = "from-zero" THEN 0
                                           ELSE planned[1],
                       frameCount |-> Len(planned)]
    /\ UNCHANGED <<renderVars, helperVars, durationInFrames, frameRange, everyNthFrame,
                   planned, fileNumbers>>

NumNext == PlanFrames \/ NameFrames \/ happyPath

NumSpec == NumInit /\ [][NumNext]_vars

-----------------------------------------------------------------------------
\* getBrowserInstance of packages/lambda/src/functions/helpers/
\* get-browser-instance.ts, as a specification of its own: the calls a warm
\* function makes, in any interleaving with the launch they await, with the
\* timers of waitForLaunched and with the browsers' 'disconnected' events.
\* A browser emits 'disconnected' once, when its connection closes.

LambdaInit ==
    /\ RenderInit
    /\ config = "valid"
    /\ frameCount = MaxFrames
    /\ actualConcurrency = 1
    /\ puppeteerInstance = FALSE
    /\ NumIdle
    /\ PoolHistoryIdle
    /\ DedupIdle
    /\ HelpersIdle

notLambdaVars == <<renderVars, numVars, binaryVars>>

CallDone(c) == callPc[c] \in {"returned", "threw"}

\* A call that tests the cache only, and launches whenever it is empty.
CallBranchIgnoresLaunching ==
    IF _browserInstance # NoInstance THEN "reuse" ELSE "launch"

\* if (launching) {...} if (_browserInstance) {...}: the branch a call takes.
CallBranch ==
    IF launching THEN "wait"
    ELSE IF _browserInstance # NoInstance THEN "reuse" ELSE "launch"

\* A call of getBrowserInstance, up to its first await or its return:
\* it waits (waitForLaunched sets its timers), or returns the cached browser,
\* or sets `launching` and calls internalOpenBrowser.
getBrowserInstance(c) ==
    /\ callPc[c] = "notCalled"
    /\ CASE CallBranch = "wait" ->
              /\ callPc' = [callPc EXCEPT ![c] = "waiting"]
              /\ waitsFor' = [waitsFor EXCEPT ![c] = inFlight]
              /\ UNCHANGED <<launching, callResult, inFlight>>
         [] CallBranch = "reuse" ->
              /\ callPc' = [callPc EXCEPT ![c] = "returned"]
              /\ callResult' = [callResult EXCEPT ![c] = _browserInstance]
              /\ UNCHANGED <<launching, inFlight, waitsFor>>
         [] CallBranch = "launch" ->
              /\ launching' = TRUE
              /\ callPc' = [callPc EXCEPT ![c] = "launching"]
              /\ inFlight' = c
              /\ UNCHANGED <<callResult, waitsFor>>
    /\ UNCHANGED <<_browserInstance, connected, closedInstances, launched, callError,
                   notLambdaVars>>

\* The timer callback of check(), 16 ms after the last one: it resolves the
\* wait when `launching` is set, and the call goes on after its await; else
\* it sets the next timer.
check(c) ==
    /\ callPc[c] \in {"waiting", "polling"}
    /\ IF launching
       THEN IF _browserInstance = NoInstance
            THEN /\ callPc' = [callPc EXCEPT ![c] = "threw"]
                 /\ callError' = [callError EXCEPT ![c] = "expected to launch"]
                 /\ UNCHANGED callResult
            ELSE /\ callPc' = [callPc EXCEPT ![c] = "returned"]
                 /\ callResult' = [callResult EXCEPT ![c] = _browserInstance]
                 /\ UNCHANGED callError
       ELSE /\ callPc' = [callPc EXCEPT ![c] = "polling"]
            /\ UNCHANGED <<callResult, callError>>
    /\ UNCHANGED <<_browserInstance, launching, connected, closedInstances, launched,
                   inFlight, waitsFor, notLambdaVars>>

\* The 5000 ms timer of waitForLaunched: it rejects a wait that no check has
\* resolved (the first check, at 16 ms, comes before it).
waitTimeout(c) ==
    /\ callPc[c] = "polling"
    /\ callPc' = [callPc EXCEPT ![c] = "threw"]
    /\ callError' = [callError EXCEPT ![c] = "Timeout launching browser"]
    /\ UNCHANGED <<_browserInstance, launching, connected, closedInstances, launched,
                   callResult, inFlight, waitsFor, notLambdaVars>>

\* internalOpenBrowser resolves: the browser is cached, its 'disconnected'
\* handler is registered, `launching` is reset and the call returns.
internalOpenBrowserResolves(c) ==
    /\ callPc[c] = "launching"
    /\ launched' = launched + 1
    /\ _browserInstance' = launched + 1
    /\ connected' = connected \cup {launched + 1}
    /\ launching' = FALSE
    /\ inFlight' = NoCall
    /\ callPc' = [callPc EXCEPT ![c] = "returned"]
    /\ callResult' = [callResult EXCEPT ![c] = launched + 1]
    /\ UNCHANGED <<closedInstances, callError, waitsFor, notLambdaVars>>

\* internalOpenBrowser rejects: the await throws out of getBrowserInstance,
\* and none of the statements after it runs.
internalOpenBrowserRejects(c) ==
    /\ callPc[c] = "launching"
    /\ inFlight' = NoCall
    /\ callPc' = [callPc EXCEPT ![c] = "threw"]
    /\ callError' = [callError EXCEPT ![c] = "launch failed"]
    /\ UNCHANGED <<_browserInstance, launching, connected, closedInstances, launched,
                   callResult, waitsFor, notLambdaVars>>

\* A handler that leaves the cache as it is.
AfterDisconnectedKeepsCache == _browserInstance

\* _browserInstance = null, the last statement of the handler.
AfterDisconnected == NoInstance

\* Browser b emits 'disconnected': its handler closes the browser that
\* `_browserInstance` names at that time, and clears the cache.
onDisconnected(b) ==
    /\ b \in connected
    /\ connected' = connected \ {b}
    /\ closedInstances' = IF _browserInstance # NoInstance
                          THEN closedInstances \cup {_browserInstance}
                          ELSE closedInstances
    /\ _browserInstance' = AfterDisconnected
    /\ UNCHANGED <<launching, launched, callPc, callResult, callError, inFlight,
                   waitsFor,
                   notLambdaVars>>

LambdaNext ==
    \/ \E c \in Calls : getBrowserInstance(c)
    \/ \E c \in Calls : check(c)
    \/ \E c \in Calls : waitTimeout(c)
    \/ \E c \in Calls : internalOpenBrowserResolves(c)
    \/ \E c \in Calls : internalOpenBrowserRejects(c)
    \/ \E b \in 1..MaxCalls : onDisconnected(b)

LambdaSpec == LambdaInit /\ [][LambdaNext]_vars

-----------------------------------------------------------------------------
\* binaryExists, as a specification of its own: calls with any name and any
\* localExecutable, in any order with changes of the file system (binaries
\* installed or removed, files created or deleted).

BinaryInit ==
    /\ RenderInit
    /\ config = "valid"
    /\ frameCount = MaxFrames
    /\ actualConcurrency = 1
    /\ puppeteerInstance = FALSE
    /\ NumIdle
    /\ PoolHistoryIdle
    /\ DedupIdle
    /\ LambdaIdle
    /\ existsMap = [n \in {} |-> TRUE]
    /\ onPath \in SUBSET BinaryNames
    /\ existingFiles \in SUBSET Paths
    /\ probes = [n \in BinaryNames |-> 0]
    /\ returned = [n \in BinaryNames |-> {}]
    /\ passed = [n \in BinaryNames |-> {}]
    /\ binaryCalls = 0

notBinaryVars == <<renderVars, numVars, lambdaVars>>

\* A memo that is used only by the calls that pass no executable.
MemoizedWithoutExecutable(name, localExecutable) ==
    name \in DOMAIN existsMap /\ localExecutable = NoPath

\* typeof existsMap[name] !== 'undefined'
Memoized(name, localExecutable) == name \in DOMAIN existsMap

\* What the probe finds: statSync(localExecutable) for ffmpeg and ffprobe
\* with an executable given, else `which name` (`where` on Windows).
ProbeBinary(name, localExecutable) ==
    IF name \in {"ffmpeg", "ffprobe"} /\ localExecutable # NoPath
    THEN localExecutable \in existingFiles
    ELSE name \in onPath

binaryExists(name, localExecutable) ==
    /\ binaryCalls < MaxBinaryCalls
    /\ binaryCalls' = binaryCalls + 1
    /\ passed' = [passed EXCEPT ![name] = @ \cup {localExecutable}]
    /\ IF Memoized(name, localExecutable)
       THEN /\ returned' = [returned EXCEPT ![name] = @ \cup {existsMap[name]}]
            /\ UNCHANGED <<existsMap, probes>>
       ELSE LET found == ProbeBinary(name, localExecutable) IN
            /\ probes' = [probes EXCEPT ![name] = @ + 1]
            /\ existsMap' = [n \in DOMAIN existsMap \cup {name} |->
                               IF n = name THEN found ELSE existsMap[n]]
            /\ returned' = [returned EXCEPT ![name] = @ \cup {found}]
    /\ UNCHANGED <<onPath, existingFiles, notBinaryVars>>

\* Between two calls the file system changes in any way.
FileSystemChanges ==
    /\ onPath' \in SUBSET BinaryNames
    /\ existingFiles' \in SUBSET Paths
    /\ <<onPath', existingFiles'>> # <<onPath, existingFiles>>
    /\ UNCHANGED <<existsMap, probes, returned, passed, binaryCalls, notBinaryVars>>

BinaryNext ==
    \/ \E name \in BinaryNames, localExecutable \in {NoPath} \cup Paths :
          binaryExists(name, localExecutable)
    \/ FileSystemChanges

BinarySpec == BinaryInit /\ [][BinaryNext]_vars

\* Every continuation that is ready runs: the event loop takes each queued
\* job, and every browser operation ends, with its result or with an error
\* (a page operation is bounded by timeoutInMilliseconds).
AttemptEnds(a) ==
    \/ \E n \in 0..MaxDownloads : AttemptSucceeds(a, n)
    \/ \E err \in ThrownErrors : AttemptThrows(a, err)
    \/ AttemptThrowsConfig(a)
    \/ DeadPageThrows(a)

Fairness ==
    /\ WF_vars(StartInner)
    /\ WF_vars(PoolReady \/ \E err \in ThrownErrors : PoolInitFails(err))
    /\ WF_vars(ReplaceFinishes \/ ReplaceFails \/ ReplaceFailsOnPool)
    /\ WF_vars(DownloadSucceeds \/ DownloadFails)
    /\ \A t \in 1..MaxFrames, k \in 1..MaxAttempts :
          /\ WF_vars(<<t, k>> \in Attempts /\ AwaitPoolThrows(<<t, k>>))
          /\ WF_vars(<<t, k>> \in Attempts /\ Acquire(<<t, k>>))
          /\ WF_vars(<<t, k>> \in Attempts /\ AttemptEnds(<<t, k>>))

FairSpec == Spec /\ Fairness

----------------------------------------------------------------------------
\* Structure the actions rely on.

TypeOK ==
    /\ frameCount \in 0..MaxFrames
    /\ actualConcurrency \in 1..MaxConcurrency
    /\ config \in Configs
    /\ runState \in {"pending", "resolved", "rejected", "threw"}
    /\ poolState \in {"none", "pending", "ready", "failed"}
    /\ \A t \in Tasks :
         taskState[t] \in {"notStarted", "running", "replacing", "replaceWait",
                           "resolved", "rejected"}
    /\ \A a \in Attempts :
         apc[a] \in {"none", "awaitPool", "waiting", "rendering",
                     "renderingDead", "done", "failed", "stopped"}
    /\ \A a \in Attempts : apage[a] \in 0..nextPage
    /\ \A t \in Tasks : caught[t] \in {"none", "cancel", "config"} \cup ThrownErrors
    /\ downloads \in 0..MaxDownloads
    /\ downloadFailed \in BOOLEAN

\* Once `stopped` is set no task awaits an attempt: the cancel signal has
\* rejected every race, and rejects at once the race of an attempt started
\* later.
StoppedNoLive == stopped => \A t \in Tasks : taskState[t] # "running"

\* The pool's waiters are exactly the attempts suspended in acquire().
WaitersAreWaiting ==
    /\ \A i \in 1..Len(poolWaiters) : apc[poolWaiters[i]] = "waiting"
    /\ \A a \in Attempts :
         apc[a] = "waiting" => \E i \in 1..Len(poolWaiters) : poolWaiters[i] = a

----------------------------------------------------------------------------
\* The claims.

\* C1: in every reachable state the number of pages held by frame tasks
\* (acquired from the pool and not yet released) is at most the concurrency.
\* Counted here are only the pages whose attempt is still running on them,
\* the fewest the claim can mean.
C1_HeldAtMostConcurrency ==
    Cardinality({a \in Attempts : InFlight(a)}) <= actualConcurrency

\* C2: whenever the run has resolved, the assets array has one entry per
\* planned frame, every index holds what the task of that index wrote, and
\* no entry is undefined.
C2_ResolvedAssetsComplete ==
    runState = "resolved" =>
        /\ DOMAIN assets = 1..frameCount
        /\ \A i \in Tasks : assets[i] # 0 /\ assets[i] = framesToRender(i) + 1

\* A run of two frames that resolved after one of them was retried.
C2_Witness ==
    /\ runState = "resolved"
    /\ frameCount = 2
    /\ \E t \in Tasks : attempt[t] = 2

\* The browser replacement completes in this step.
ReplacementDone == replacing /\ ~replacing' /\ browserGen' = browserGen + 1

\* C3: with MAX_RETRIES_PER_FRAME = 1, a task whose attempt failed with a
\* target-closed error and that has awaited the browser replacement starts
\* exactly one more attempt when the replacement completes, and an attempt
\* number changes in no other way; when the second attempt fails while the
\* task awaits it, the task rejects and the run is rejected, with no further
\* replacement or attempt; no frame is ever attempted more than twice.
C3_RetryOnceThenFail ==
    /\ [](\A t \in Tasks : attempt[t] <= MAX_RETRIES_PER_FRAME + 1)
    /\ [][\A t \in Tasks :
            /\ (t \in Replacers /\ ReplacementDone) =>
                  /\ attempt'[t] = attempt[t] + 1
                  /\ apc'[<<t, attempt'[t]>>] = "awaitPool"
            /\ (attempt[t] >= 1 /\ attempt'[t] # attempt[t]) =>
                  /\ t \in Replacers /\ ReplacementDone
                  /\ taskErr[t] = "none"
            /\ (Live(t, 2) /\ InFlight(<<t, 2>>) /\ apc'[<<t, 2>>] = "failed") =>
                  /\ taskState'[t] = "rejected"
                  /\ taskErr'[t] \in ThrownErrors \cup {"config"}
                  /\ runState' = "rejected"
                  /\ attempt'[t] = 2
                  /\ cycles' = cycles
         ]_vars

\* The second attempt of a frame failed with the target-closed error too:
\* the task rejected with it and the run is rejected.
C3_Witness ==
    \E t \in Tasks :
        /\ attempt[t] = 2
        /\ apc[<<t, 1>>] = "failed"
        /\ apc[<<t, 2>>] = "failed"
        /\ taskState[t] = "rejected"
        /\ taskErr[t] = "crash"
        /\ runState = "rejected"

\* Whether attempt a has called seekToFrame on a page.
Sought(a) ==
    \/ apc[a] \in {"rendering", "renderingDead", "done"}
    \/ apc[a] = "failed" /\ apage[a] # 0

\* C4: when the cancel signal fired on the pending run before any
\* pool.acquire() had returned, no attempt ever seeks or captures, no assets
\* slot is written, and the run is rejected with the cancel error.
C4_EarlyCancelCapturesNothing ==
    cancelledEarly =>
        /\ \A a \in Attempts : ~Sought(a)
        /\ \A i \in Tasks : assets[i] = 0 /\ writes[i] = 0
        /\ runState = "rejected"
        /\ runErr = "cancel"

\* The signal fired before any acquire() returned, and an attempt has since
\* been given a page and has returned on `stopped`.
C4_Witness ==
    /\ cancelledEarly
    /\ \E a \in Attempts : apc[a] = "stopped" /\ apage[a] # 0

\* The task reached Success: the attempt it awaited assigned its assets slot
\* and released its page.
Success(t) == taskState[t] = "resolved" /\ apc[<<t, attempt[t]>>] = "done"

\* C5: the run is resolved only if every frame task reached Success; once a
\* frame task has rejected, or the signal has fired on the unresolved run,
\* the run is rejected, and it is rejected with the first such cause.
C5_ResolveOnlyOnAllSuccess ==
    /\ runState = "resolved" => \A t \in Tasks : Success(t)
    /\ (\E t \in Tasks : taskState[t] = "rejected") => runState = "rejected"
    /\ firstCause # "none" => runState = "rejected"
    /\ runState = "rejected" => runErr = firstCause

\* The run was rejected by a failed frame, and the signal fired afterwards.
C5_Witness ==
    /\ runState = "rejected"
    /\ runErr = "fatal"
    /\ cancelled
    /\ \E t \in Tasks : taskErr[t] = "cancel"

\* C6: no page is held by two attempts at once, and no page an attempt holds
\* is idle in the pool (so no acquire() can return it), also after new pages
\* were released into the pool by a browser replacement.
C6_NoPageHeldTwice ==
    /\ \A a, b \in Attempts :
         (a # b /\ Holds(a) /\ Holds(b)) => apage[a] # apage[b]
    /\ \A i \in 1..Len(resources) : resources[i] \notin HeldPages
    /\ \A i, j \in 1..Len(resources) : i # j => resources[i] # resources[j]

\* After a replacement, two attempts run on pages at once, one of them on a
\* page of the new browser.
C6_Witness ==
    /\ browserGen >= 1
    /\ \E a, b \in Attempts :
         /\ a # b
         /\ InFlight(a) /\ InFlight(b)
         /\ PageGen(apage[a]) = browserGen

\* C7: a task that observes a target-closed error while a replacement is in
\* progress waits for that replacement: no further cycle begins, no browser
\* is launched and no page is made by that step; each completed cycle
\* launches one browser and makes one batch of actualConcurrency pages, and
\* releases every task that awaited it.
C7_OneReplacementPerCrash ==
    /\ [](/\ batches = browserGen
          /\ browserGen <= cycles
          /\ poolState = "ready" => nextPage = actualConcurrency * (1 + batches))
    /\ [][(replacing /\ Replacers' \ Replacers # {}) =>
             /\ replacing'
             /\ cycles' = cycles
             /\ browserGen' = browserGen
             /\ nextPage' = nextPage
             /\ \A t \in Replacers' \ Replacers : taskState'[t] = "replaceWait"
         ]_vars
    /\ [][ReplacementDone =>
             /\ Replacers' = {}
             /\ batches' = batches + 1
             /\ nextPage' = nextPage + actualConcurrency
         ]_vars

\* Two frames crashed during one replacement cycle; one browser and one batch
\* of pages later both are at their second attempt.
C7_Witness ==
    /\ frameCount = 2
    /\ cycles = 1
    /\ batches = 1
    /\ nextPage = 2 * actualConcurrency
    /\ \A t \in Tasks : attempt[t] = 2

\* C8: once the browser has been replaced, every page pool.acquire() returns
\* was made on the current browser.
C8_NoStalePageAcquired ==
    [][\A a \in Attempts :
          (apage[a] = 0 /\ apage'[a] # 0) => PageGen(apage'[a]) = browserGen'
      ]_vars

\* C9: the idle pages of the pool and the pages held by frame tasks
\* (acquired, not released) are together as many as the pool's capacity.
C9_IdlePlusHeldIsCapacity ==
    poolState = "ready" =>
        Len(resources) + Cardinality(HeldPages) = actualConcurrency

\* C10: in a run that resolved, every assets slot was assigned exactly once.
C10_SlotWrittenOnce ==
    runState = "resolved" => \A i \in Tasks : writes[i] = 1

\* C11: when the cancel signal fires while the run's promise is pending, the
\* run is rejected with the cancel error in that step, and it stays so: no
\* later completion, crash, fatal error or 'Render was stopped' replaces it.
C11_CancelTakesPrecedence ==
    /\ [][(~cancelled /\ cancelled' /\ runState = "pending") =>
             (runState' = "rejected" /\ runErr' = "cancel")]_vars
    /\ [][(cancelled /\ runState = "rejected" /\ runErr = "cancel") =>
             (runState' = "rejected" /\ runErr' = "cancel")]_vars

\* The signal fired on the pending run while frames were being captured; all
\* of them completed afterwards and the run is still rejected as cancelled.
C11_Witness ==
    /\ cancelled
    /\ runState = "rejected"
    /\ runErr = "cancel"
    /\ frameCount = 2
    /\ \A t \in Tasks : apc[<<t, 1>>] = "done" /\ writes[t] = 1

\* C12: once the cancel signal has fired, no browser replacement is started
\* and no frame task begins a further attempt of its frame: no
\* renderFrameAndRetryTargetClose call with attempt + 1 is made.
C12_NoRetryAfterCancel ==
    [][cancelled =>
          /\ cycles' = cycles
          /\ \A t \in Tasks : attempt[t] >= 1 => attempt'[t] = attempt[t]
      ]_vars

\* C13: once the cancel signal has fired, no attempt acquires a page from
\* the pool: pool.acquire() returns a page to no attempt.
C13_NoAcquireAfterCancel ==
    [][cancelled => \A a \in Attempts : apage[a] = 0 => apage'[a] = 0]_vars

\* C14: an attempt whose pool.acquire() returns after the cancel signal has
\* fired goes to the `stopped` return and stays there: it never calls
\* seekToFrame, never captures and never writes its assets slot.
C14_CancelledAcquisitionNeverRenders ==
    /\ [][\A a \in Attempts :
             (cancelled /\ apage[a] = 0 /\ apage'[a] # 0) => apc'[a] = "stopped"
         ]_vars
    /\ [][\A a \in Attempts : apc[a] = "stopped" => apc'[a] = "stopped"]_vars

\* With one page for two frames, the first frame completed after the signal
\* had fired and released its page to the second, waiting, frame, which
\* stopped.
C14_Witness ==
    /\ cancelled
    /\ actualConcurrency = 1
    /\ browserGen = 0
    /\ \E a, b \in Attempts :
         /\ a # b
         /\ apc[a] = "done"
         /\ apc[b] = "stopped"
         /\ apage[b] = 1

C16_JoinBarrier ==
    (started /\ runState # "pending") =>
        \A t \in Tasks : taskState[t] \in {"resolved", "rejected"}

\* C17: the run's promise is never resolved while a download that a frame
\* started with downloadAndMapAssetsToFileUrl is pending.
C17_ResolveAwaitsDownloads ==
    runState = "resolved" => downloads = 0

\* C18: once a download started during the run has rejected, the run's
\* promise is rejected: it is not resolved, then or later.
C18_FailedDownloadFailsRun ==
    downloadFailed => runState = "rejected"

\* C19: with options that fail a configuration check no worker is touched:
\* no page is made, no pool is created and no attempt acquires or seeks a
\* page.
C19_ConfigErrorTouchesNoWorker ==
    config # "valid" =>
        /\ nextPage = 0
        /\ poolState = "none"
        /\ \A a \in Attempts : apage[a] = 0 /\ ~Sought(a)

\* C20: with an empty frame list the run fails with a configuration error
\* when innerRenderFrames runs: no pool is created and no page made, onStart
\* is not called, and the run never resolves.
C20_EmptyPlanFailsFast ==
    frameCount = 0 =>
        /\ poolState = "none"
        /\ nextPage = 0
        /\ ~onStartCalled
        /\ runState # "resolved"
        /\ started => (runState = "rejected" /\ runErr \in {"config", "cancel"})

\* innerRenderFrames ran on an empty frame list and the run is rejected with
\* the configuration error.
C20_Witness ==
    /\ frameCount = 0
    /\ started
    /\ runState = "rejected"
    /\ runErr = "config"

\* C21: once getPool has rejected there is no pool and there are no pages in
\* one, no attempt is ever handed a page, seeks or captures, no assets slot
\* is written, the run never resolves, and the run ends up rejected.
C21_PoolInitAllOrNothing ==
    /\ [](poolErr # "none" =>
            /\ poolState = "failed"
            /\ resources = <<>>
            /\ \A a \in Attempts : apage[a] = 0 /\ ~Sought(a)
            /\ \A t \in Tasks : assets[t] = 0 /\ writes[t] = 0
            /\ runState # "resolved")
    /\ (poolErr # "none" ~> runState = "rejected")

C21_Witness ==
    /\ poolErr = "crash"
    /\ runState = "rejected"
    /\ runErr = "crash"
    /\ \E t \in Tasks : taskState[t] = "rejected" /\ apc[<<t, 1>>] = "failed"

\* C22: the numbering of a returned plan. With stride 1 the count type is
\* actual-frames, every file number is its frame number and firstFrameIndex
\* is the first planned frame; with any other stride the count type is
\* from-zero, the file numbers are 0..N-1 in plan order and firstFrameIndex
\* is 0 (20 frames with stride 5: frames 0, 5, 10, 15 numbered 0, 1, 2, 3).
\* In both, the file numbers are consecutive from firstFrameIndex and
\* frameCount is the number of planned frames.
C22_NumberingMode ==
    numPc = "returned" =>
        LET N == Len(planned) IN
        /\ everyNthFrame = 1 =>
              /\ countType = "actual-frames"
              /\ \A i \in 1..N : fileNumbers[i] = planned[i]
              /\ returnValue.firstFrameIndex = planned[1]
        /\ everyNthFrame # 1 =>
              /\ countType = "from-zero"
              /\ \A i \in 1..N : fileNumbers[i] = i - 1
              /\ returnValue.firstFrameIndex = 0
        /\ (durationInFrames = 20 /\ frameRange = NoRange /\ everyNthFrame = 5) =>
              planned = <<0, 5, 10, 15>> /\ fileNumbers = <<0, 1, 2, 3>>
        /\ Len(fileNumbers) = N
        /\ \A i \in 1..N : fileNumbers[i] = returnValue.firstFrameIndex + i - 1
        /\ returnValue.frameCount = N

C22_Witness ==
    /\ numPc = "returned"
    /\ durationInFrames = 20 /\ frameRange = NoRange /\ everyNthFrame = 5
    /\ fileNumbers = <<0, 1, 2, 3>>
    /\ returnValue = [firstFrameIndex |-> 0, frameCount |-> 4]

\* Whether the page has been closed, or the browser hosting it has.
PageTornDown(p) ==
    IF puppeteerInstance
    THEN p <= closedPages
    ELSE PageGen(p) = 0 \/ ~PageValid(p)

\* C23: once the run has settled, by resolving or by rejecting, every page
\* opened during the run has been closed (browser passed in) or its browser
\* has been closed (browser launched by renderFrames), the pages opened
\* after the settlement included.
C23_TornDownAfterSettlement ==
    runState \in {"resolved", "rejected"} =>
        \A p \in 1..nextPage : PageTornDown(p)

\* C24: the callers suspended in pool.acquire() are resumed in the order in
\* which they called it: the callers resumed so far are the first of those
\* suspended so far, in the same order, and the others are the wait queue.
C24_WaitersServedFifo ==
    /\ Len(served) <= Len(enqueued)
    /\ \A i \in 1..Len(served) : served[i] = enqueued[i]
    /\ poolWaiters = SubSeq(enqueued, Len(served) + 1, Len(enqueued))

C24_Witness ==
    /\ Len(served) >= 2
    /\ poolWaiters # <<>>

IdleValidAfter ==
    {i \in DOMAIN resources' :
        browserAlive' /\ (resources'[i] - 1) \div actualConcurrency = browserGen'}

\* C26 as stated: whenever a task starts its next attempt, a new browser is
\* up, actualConcurrency fresh pages have been added to the pool, and the
\* pool holds actualConcurrency idle valid pages.
C26_RefillLeavesAllIdle ==
    [][\A t \in Tasks :
          (attempt[t] >= 1 /\ attempt'[t] = attempt[t] + 1) =>
              /\ browserAlive'
              /\ browserGen' = browserGen + 1
              /\ nextPage' = nextPage + actualConcurrency
              /\ Cardinality(IdleValidAfter) = actualConcurrency]_vars

\* The pages made in the step.
FreshPages == (nextPage + 1)..nextPage'

\* C26: whenever a task starts its next attempt, a new browser is up and
\* actualConcurrency fresh pages have been made on it and released into the
\* pool: each is idle in the pool or was handed to a caller that was
\* suspended in acquire(), the longest-waiting ones first; when no caller
\* was suspended the pool holds actualConcurrency idle valid pages.
C26_RefillBeforeRetry ==
    [][\A t \in Tasks :
          (attempt[t] >= 1 /\ attempt'[t] = attempt[t] + 1) =>
              /\ browserAlive'
              /\ browserGen' = browserGen + 1
              /\ nextPage' = nextPage + actualConcurrency
              /\ \A p \in FreshPages :
                    \/ \E i \in DOMAIN resources' : resources'[i] = p
                    \/ \E i \in DOMAIN poolWaiters :
                          /\ i <= actualConcurrency
                          /\ apage'[poolWaiters[i]] = p
              /\ Cardinality(IdleValidAfter) =
                    actualConcurrency - Len(poolWaiters) + Len(poolWaiters')
              /\ poolWaiters = <<>> =>
                    Cardinality(IdleValidAfter) = actualConcurrency]_vars

\* A task is in its second attempt on the new browser while a fresh page is
\* held by the first attempt of another task, which had been suspended.
C26_Witness ==
    \E t, u \in Tasks :
        /\ t # u
        /\ attempt[t] = 2 /\ attempt[u] = 1
        /\ browserGen = 1 /\ browserAlive
        /\ apc[<<t, 2>>] = "awaitPool"
        /\ apage[<<u, 1>>] > actualConcurrency

\* C27: an attempt that ends its capture releases its page and returns in
\* the same step, whether or not it started downloads: the page is idle or
\* with the longest-waiting caller, which goes on, and the attempt's task
\* resolves. While downloads are pending every attempt at
\* `await poolPromise` can still acquire and every attempt that is
\* rendering can still succeed.
C27_DownloadsAreFireAndForget ==
    /\ [][\A a \in Attempts :
            (apc[a] = "rendering" /\ apc'[a] = "done") =>
                /\ apage'[a] = 0
                /\ Live(a[1], a[2]) => taskState'[a[1]] = "resolved"
                /\ IF poolWaiters = <<>>
                   THEN resources' = Append(resources, apage[a])
                   ELSE /\ apage'[Head(poolWaiters)] = apage[a]
                        /\ apc'[Head(poolWaiters)] # "waiting"]_vars
    /\ [](downloads > 0 =>
            \A a \in Attempts :
                /\ (apc[a] = "awaitPool" /\ poolState = "ready") => ENABLED Acquire(a)
                /\ (apc[a] = "rendering" /\ config = "valid") =>
                      ENABLED AttemptSucceeds(a, 0))

\* With one page: a frame's task has resolved and its download is pending,
\* and the other frame is rendering on the page.
C27_Witness ==
    \E t, u \in Tasks :
        /\ actualConcurrency = 1
        /\ downloads = 1
        /\ Success(t)
        /\ apc[<<u, 1>>] = "rendering"
        /\ apage[<<u, 1>>] = 1

\* C28: every frame task that was started ends, resolved or rejected, and no
\* attempt stays suspended in pool.acquire() for ever.
C28_EveryTaskTerminates ==
    /\ \A t \in 1..MaxFrames :
          (t \in Tasks /\ taskState[t] = "running")
              ~> (t \in Tasks /\ taskState[t] \in {"resolved", "rejected"})
    /\ \A t \in 1..MaxFrames, k \in 1..MaxAttempts :
          (t \in Tasks /\ apc[<<t, k>>] = "waiting")
              ~> (t \in Tasks /\ apc[<<t, k>>] # "waiting")

\* One replacement was started and completed, after a single crash-class
\* error, and nothing else went wrong: no other failure was injected, no
\* cancel signal fired and the options are valid.
SingleCrashRecovered ==
    /\ cycles = 1
    /\ batches = 1
    /\ faults = 1
    /\ ~cancelled
    /\ config = "valid"
    /\ \E t \in Tasks : caught[t] = "crash"

\* C29: in a run with a single crash and a completed replacement and no
\* other failure, every task that caught the crash re-attempts, on a page of
\* the new browser, and the run resolves with every assets slot assigned.
C29_SingleCrashRecovers ==
    /\ [](SingleCrashRecovered =>
            /\ runState # "rejected"
            /\ \A t \in Tasks :
                  caught[t] = "crash" =>
                      /\ attempt[t] = 2
                      /\ apage[<<t, 2>>] # 0 => PageGen(apage[<<t, 2>>]) = 1)
    /\ (SingleCrashRecovered ~>
            (runState = "resolved" /\ \A t \in Tasks : assets[t] # 0))

\* The function of the attempt has ended: it returned after its capture, it
\* threw, or it took the early return of a stopped render.
AttemptEnded(a) == apc[a] \in {"done", "failed", "stopped"}

\* C30: an attempt whose function has ended, on whichever path, holds no
\* page: the page it acquired is back in the pool.
C30_PageReleasedOnEveryExit ==
    \A a \in Attempts : AttemptEnded(a) => ~Holds(a)

\* Every frame has been captured and its page is back in the pool.
AllRenderedAndReleased ==
    /\ \A t \in Tasks : Success(t) /\ assets[t] # 0
    /\ \A a \in Attempts : ~Holds(a)
    /\ poolWaiters = <<>>

\* C31: a run with valid options and at least one planned frame in which no
\* failure is injected and no cancel signal fires resolves, with every
\* frame captured and every page released, also with more frames than pages.
C31_FaultFreeRunResolves ==
    (config = "valid" /\ frameCount >= 1) =>
        <>(\/ faults > 0
           \/ cancelled
           \/ runState = "resolved" /\ AllRenderedAndReleased)

C31_Witness ==
    /\ frameCount > actualConcurrency
    /\ faults = 0 /\ ~cancelled
    /\ runState = "resolved"
    /\ AllRenderedAndReleased

RECURSIVE SumWrites(_)
SumWrites(n) == IF n = 0 THEN 0 ELSE writes[n] + SumWrites(n - 1)

\* framesRendered: incremented, and passed to onFrameUpdate, by every attempt
\* that reaches the end of its capture, in the block that assigns its slot.
framesRendered == SumWrites(frameCount)

\* C32: onFrameUpdate is called at most once per planned frame, so the
\* counter it is passed never exceeds the number of planned frames, and
\* when the run has resolved it was called exactly once for each of them.
C32_FramesRenderedCountsEachFrameOnce ==
    /\ \A t \in Tasks : writes[t] <= 1
    /\ framesRendered <= frameCount
    /\ runState = "resolved" => framesRendered = frameCount

\* C33: once the cancel signal has fired no frame task is left running, and
\* from then on no attempt assigns an assets slot or calls onFrameUpdate,
\* the attempts that were seeking or capturing when it fired included.
C33_NoOutputAfterCancel ==
    /\ [](cancelled =>
            \A t \in Tasks : taskState[t] \in {"notStarted", "resolved", "rejected"})
    /\ [][cancelled => (writes' = writes /\ assets' = assets)]_vars

\* C34: once the run has settled and the cleanup functions are registered,
\* the finally callback has called, or goes on to call, every one of them.
C34_CleanupFunctionsRun ==
    (runState \in {"resolved", "rejected"} /\ Registered = 2) ~> (cleanedUp = 2)

\* Browser g of the run (0: browserInstance, g > 0: the g-th replacement) is
\* closed: it was replaced, it is down, or it is browserInstance and the
\* finally callback has closed it.
BrowserClosed(g) ==
    \/ g < browserGen
    \/ g = browserGen /\ ~browserAlive
    \/ g = 0 /\ ~puppeteerInstance /\ closedPages # -1

\* C35: when renderFrames launched the browser and the run has settled,
\* every browser launched during the run is closed, the replacement that
\* is current at the end included.
C35_ReplacementBrowserClosed ==
    (~puppeteerInstance /\ runState \in {"resolved", "rejected"}) =>
        \A g \in 0..browserGen : BrowserClosed(g)

\* C36: a call that took the wait branch while another call's launch was
\* pending does not end before that launch has; and when that launch
\* succeeded, the call returns the browser it launched, and throws neither
\* 'expected to launch' nor 'Timeout launching browser'.
C36_LateCallerGetsLaunchedInstance ==
    \A c \in Calls :
        (waitsFor[c] # NoCall /\ CallDone(c)) =>
            /\ CallDone(waitsFor[c])
            /\ callPc[waitsFor[c]] = "returned" =>
                  /\ callPc[c] = "returned"
                  /\ callResult[c] = callResult[waitsFor[c]]
                  /\ callError[c] \notin {"expected to launch",
                                          "Timeout launching browser"}

\* C37: at most one call awaits internalOpenBrowser at a time; a call starts
\* a launch only when `launching` is false, the cache is empty and no other
\* launch is pending; and a call made while the cached browser is connected
\* and no launch is pending returns that browser.
C37_OneLaunchAtATime ==
    /\ [](Cardinality({c \in Calls : callPc[c] = "launching"}) <= 1)
    /\ [][\A c \in Calls :
            (callPc[c] = "notCalled" /\ callPc'[c] = "launching") =>
                /\ ~launching
                /\ _browserInstance = NoInstance
                /\ connected = {}
                /\ \A d \in Calls : callPc[d] # "launching"]_vars
    /\ [][\A c \in Calls :
            (/\ callPc[c] = "notCalled" /\ callPc'[c] # "notCalled"
             /\ _browserInstance \in connected
             /\ \A d \in Calls : callPc[d] # "launching") =>
                /\ callPc'[c] = "returned"
                /\ callResult'[c] = _browserInstance]_vars

\* Two calls have returned the same browser, one that launched it and one
\* that found it cached, and a later call is launching the next one.
C37_Witness ==
    \E c, d, e \in Calls :
        /\ c # d
        /\ callPc[c] = "returned" /\ callPc[d] = "returned"
        /\ callResult[c] = 1 /\ callResult[d] = 1
        /\ callPc[e] = "launching"

\* C38: the step in which internalOpenBrowser rejects leaves `launching`
\* false, and a call made when no launch is pending and the cache is empty
\* starts a launch.
C38_FailedLaunchResetsFlag ==
    /\ [][\A c \in Calls :
            (callPc[c] = "launching" /\ callPc'[c] = "threw") => ~launching']_vars
    /\ [][\A c \in Calls :
            (/\ callPc[c] = "notCalled" /\ callPc'[c] # "notCalled"
             /\ _browserInstance = NoInstance
             /\ \A d \in Calls : callPc[d] # "launching") =>
                callPc'[c] = "launching"]_vars

\* C39: the cache never holds a disconnected browser; the step in which the
\* cached browser emits 'disconnected' leaves the cache empty and
\* `launching` false, and a call made in such a state starts a launch, whose
\* browser is a new one; no call returns a disconnected browser; and a
\* 'disconnected' handler closes and clears only the browser that emitted
\* the event, never one that is still connected.
C39_DisconnectClearsCache ==
    /\ [](_browserInstance # NoInstance => _browserInstance \in connected)
    /\ [](closedInstances \cap connected = {})
    /\ [][connected' # connected /\ connected' \subseteq connected =>
            _browserInstance' = NoInstance /\ ~launching']_vars
    /\ [][\A c \in Calls :
            (/\ callPc[c] = "notCalled" /\ callPc'[c] # "notCalled"
             /\ closedInstances # {}
             /\ _browserInstance = NoInstance /\ ~launching) =>
                callPc'[c] = "launching"]_vars
    /\ [][(_browserInstance' # NoInstance /\ _browserInstance' # _browserInstance) =>
            /\ _browserInstance' \notin closedInstances
            /\ _browserInstance' \notin connected]_vars
    /\ [][\A c \in Calls :
            (callPc[c] # "returned" /\ callPc'[c] = "returned") =>
                callResult'[c] \in connected']_vars
    /\ [][(_browserInstance # NoInstance /\ _browserInstance' = NoInstance) =>
            /\ _browserInstance \notin connected'
            /\ closedInstances' = closedInstances \cup {_browserInstance}]_vars

\* The first browser has disconnected and was closed by its handler, and a
\* later call has launched and returned the second, which is connected.
C39_Witness ==
    /\ closedInstances = {1}
    /\ _browserInstance = 2
    /\ connected = {2}
    /\ \E c \in Calls : callPc[c] = "returned" /\ callResult[c] = 2

\* C40: for every binary name, however many calls were made for it, with
\* whatever localExecutable, and however the file system changed in
\* between, the file system was probed once at most and every call returned
\* the same boolean, the one the memo holds.
C40_MemoizedPerName ==
    \A name \in BinaryNames :
        /\ probes[name] <= 1
        /\ Cardinality(returned[name]) <= 1
        /\ name \in DOMAIN existsMap <=> probes[name] = 1
        /\ name \in DOMAIN existsMap => returned[name] = {existsMap[name]}

\* Three calls for ffmpeg, without an executable and with either path: it
\* was found by the first and is reported found, though by now it is
\* neither on the path nor are the files there.
C40_Witness ==
    /\ binaryCalls = MaxBinaryCalls
    /\ passed["ffmpeg"] = {NoPath} \cup Paths
    /\ returned["ffmpeg"] = {TRUE}
    /\ "ffmpeg" \notin onPath
    /\ existingFiles = {}

====
